---- MODULE Spec2Model ----
(***************************************************************************)
(* Model of the image-inventory pipeline.                                  *)
(*                                                                         *)
(*   Classifier  : one ProductClassifier.process_product invocation        *)
(*                 (src/src/classify_product/classify_product_lib.py).     *)
(*   Distributor : two push_products main.run invocations sharing one      *)
(*                 Cloud Tasks queue (src/src/push_products/main.py and    *)
(*                 push_products_lib.py).                                  *)
(*   Endpoint    : one request to classify_product main.run, around the    *)
(*                 classifier (src/src/classify_product/main.py).          *)
(*   Startup     : module initialization of the two main.py files.         *)
(*   Schema      : generate_bigquery_schema_string on a label class        *)
(*                 (src/terraform/modules/bigquery/helpers).               *)
(*   Filter      : construction and use of a ProductFilter                 *)
(*                 (src/src/shared/common.py).                             *)
(*                                                                         *)
(* Every call to an external collaborator (HTTP GET, files.upload,         *)
(* files.delete, generate_content, insert_rows_json, BigQuery query,       *)
(* queue_path, list_tasks, create_task) is one step whose outcome, success *)
(* or an exception, is chosen by the environment.  The calls made so far   *)
(* are kept as a history so that their number and order can be stated.     *)
(***************************************************************************)
EXTENDS Integers, Sequences, FiniteSets, TLC

\* ------------------------------------------------------------------ bounds
NumLinks == 2          \* distinct image URLs
MaxAdditional == 2     \* longest additional_image_links list
MaxProducts == 3       \* products the source view can return
MaxFields == 2         \* fields of a label class
MaxCriteria == 2       \* longest brands or offer_ids list of a filter

\* ------------------------------------------------------- program constants
PAGE_SIZE == 1               \* ListTasksRequest(page_size=1)
DEFAULT_PRODUCT_LIMIT == 10  \* request_json.get('product_limit', 10)

\* request.get_json(silent=True): None for a request without a JSON body, a
\* dict without the product_limit key, or a dict holding a product_limit.
NoBody == -1
NoLimitKey == 0

\* Python's None for an Optional[str] image link (links are 1..NumLinks).
None == 0

Links == 1..NumLinks

\* Two members of the closed ImageType enum are enough to tell labels apart.
ImageTypes == {"silo", "lifestyle"}

\* response.text of a generate_content response.
Texts == {"text_a", "text_b"}

\* Values of datetime.now(utc) formatted to the second.
Clock == {"2025-01-01 00:00:00", "2025-01-01 00:00:01"}

Min(a, b) == IF a < b THEN a ELSE b

SeqsUpTo(S, n) == UNION {[1..k -> S] : k \in 0..n}

IsPrefix(s, t) == Len(s) <= Len(t) /\ s = SubSeq(t, 1, Len(s))

\* Product dataclass: the fields the classifier's control flow reads.
Products ==
  [offer_id : {"offer1"},
   image_link : Links \cup {None},
   additional_image_links : SeqsUpTo(Links, MaxAdditional)]

\* A product without any image link.
NoProduct ==
  [offer_id |-> "offer1", image_link |-> None, additional_image_links |-> <<>>]

VARIABLES
  \* ---- classifier: one process_product invocation
  product,           \* the Product being processed
  pc,                \* position in process_product
  image_links,       \* the non-null image links (line 277)
  cur,               \* process_image in progress: [image_link, ref]
  processed_images,  \* list[ProcessedImage] built so far
  response,          \* run_multimodal_query's response: <<>> is None
  pending,           \* exception pending while the finally block runs
  d,                 \* index of the cleanup loop
  gemini_response,   \* value returned by run_multimodal_query: <<>> if none
  rows,              \* rows handed to insert_rows_json
  errors,            \* insert_rows_json's return value: <<>> if it has none
  calls,             \* history of external calls: [op, arg, ok]
  logs,              \* log records emitted
  raised,            \* exception leaving process_product ("none": none)
  \* ---- distributor: runs of push_products main.run
  dpc,               \* position of each run
  products,          \* products fetched by each run
  idx,               \* products handled by the push loop of each run
  success_count,
  failure_count,
  failed_products,
  probe,             \* each run's is_queue_empty: <<>> or <<return value>>
  probed,            \* response.tasks of each run's list_tasks call
  pushed,            \* push_products' return value: <<>> or <<s, f>>
  push_error,        \* exception raised by push_products ("none": none)
  rcalls,            \* per run history of calls: [op, arg, ok]
  outcome,           \* how each run ended
  queue,             \* the Cloud Tasks queue: pending task bodies
  overlapped,        \* some run started while another was in progress
  \* ---- processing endpoint: one request to classify_product main.run
  request,           \* the HTTP request
  reply,             \* what leaves the handler: <<>> while it is running
  \* ---- start of the two entry points (module initialization)
  env,               \* names of the environment variables that are set
  loaded,            \* how each entry point's module initialization ended
  config,            \* the module-level values each entry point has bound
  served,            \* the entry point has handled a request
  \* ---- generate_bigquery_schema_string
  labeled_image_class,  \* the TypedDict class: its field types, in order
  schema_string,        \* <<>>, or the value returned or exception raised
  \* ---- ProductFilter
  filter_args,       \* arguments of the ProductFilter constructor
  product_filter,    \* <<>>, or the outcome of the construction
  sql_filter         \* <<>>, or the clauses of get_sql_filter

cvars == <<product, pc, image_links, cur, processed_images, response, pending,
           d, gemini_response, rows, errors, calls, logs, raised>>

dvars == <<dpc, products, idx, success_count, failure_count,
           failed_products, probe, probed, pushed, push_error, rcalls, outcome,
           queue, overlapped>>

hvars == <<request, reply>>

svars == <<env, loaded, config, served>>

gvars == <<labeled_image_class, schema_string>>

fvars == <<filter_args, product_filter, sql_filter>>

vars == <<cvars, dvars, hvars, svars, gvars, fvars>>

\* The two overlapping scheduled runs of the distributor.
Runs == {"run1", "run2"}

\* ===================================================================
\*                              CLASSIFIER
\* ===================================================================

\* Variant of ImageLinks: the null primary link is kept in the list.
ImageLinksKeepNone(p) == <<p.image_link>> \o p.additional_image_links

\* process_product, lines 277-281: [image_link] + additional, None dropped.
ImageLinks(p) ==
  SelectSeq(<<p.image_link>> \o p.additional_image_links,
            LAMBDA x : x # None)

\* ProcessedImage as returned by process_image (labeled_image defaults to
\* None, the empty option).  The locally computed attributes are functions
\* of the downloaded content, here of the link.
ProcessedImage(link, ref) ==
  [image_link |-> link,
   genai_file_reference |-> ref,
   mime_type |-> "image/jpeg",
   width |-> link,
   height |-> link,
   sha256_hash |-> link,
   labeled_image |-> <<>>]

Call(op, arg, ok) == [op |-> op, arg |-> arg, ok |-> ok]

CallsOf(op) == SelectSeq(calls, LAMBDA c : c.op = op)

OkCallsOf(op) == SelectSeq(calls, LAMBDA c : c.op = op /\ c.ok)

Args(s) == [k \in 1..Len(s) |-> s[k].arg]

Refs(pis) == [k \in 1..Len(pis) |-> pis[k].genai_file_reference]

\* files.upload returns a reference never handed out before.
FreshRef == Len(CallsOf("upload")) + 1

\* json.dumps: the text of a value, kept apart from the value itself.
JsonDumps(v) == [json |-> v]

\* Product.to_json (json.dumps of asdict): the payload of a log record.
ToJson(p) == JsonDumps(p)

\* run_multimodal_query, lines 182-198: the text prompt, made of one image
\* id per submitted image and the classifier's prompt.
TextPrompt(pis) ==
  [image_ids |-> [k \in 1..Len(pis) |-> k], prompt |-> "prompt.txt"]

\* A log record: level, the tag opening its message, and in json_fields the
\* product payload, the text prompt and the raw response text (<<>>: None or
\* not carried).
LogRecord(level, tag, prompt, resp) ==
  [level |-> level, tag |-> tag, product |-> ToJson(product),
   gemini_text_prompt |-> prompt, gemini_response |-> resp]

\* Variant of QueryWarning: the warning carries neither prompt nor response.
QueryWarningBare(resp) == LogRecord("warning", "[ERROR]", <<>>, <<>>)

\* run_multimodal_query, lines 218-230: the warning of the except clause;
\* resp is response.text, <<>> when there is no response.
QueryWarning(resp) ==
  LogRecord("warning", "[ERROR]", <<TextPrompt(processed_images)>>, resp)

\* Variant of Fail: the exception is re-raised without the [FAILED] record.
FailUnlogged(e) ==
  /\ raised' = e
  /\ pc' = "done"
  /\ UNCHANGED logs

\* process_product's except clause, lines 287-293: log [FAILED], re-raise.
Fail(e) ==
  /\ logs' = Append(logs, LogRecord("error", "[FAILED]", <<>>, <<>>))
  /\ raised' = e
  /\ pc' = "done"

\* Variant of OnImageError: the failing image is swallowed and the product
\* is classified with the images fetched so far.
OnImageErrorContinue(e) ==
  /\ pc' = "generate"
  /\ UNCHANGED <<logs, raised>>

\* An exception raised by process_image inside the list comprehension of
\* lines 282-284 is not handled there: it ends the comprehension and reaches
\* the except clause of process_product.
OnImageError(e) == Fail(e)

\* Variant of NextImagePc: only the first link is processed.
NextImagePcFirstOnly(n) == "generate"

\* The list comprehension of lines 282-284: the next link, or on to the query.
NextImagePc(n) == IF n < Len(image_links) THEN "get" ELSE "generate"

\* Variant of StartPc: a product without image links is finished at once.
StartPcShortCircuit(links) == IF links = <<>> THEN "done" ELSE "get"

\* process_product, lines 282-285: the comprehension over image_links calls
\* process_image once per link, none for an empty list, and
\* run_multimodal_query follows in either case.
StartPc(links) == IF links = <<>> THEN "generate" ELSE "get"

\* process_product entered: lines 276-281.
ProcessProductStart ==
  /\ pc = "start"
  /\ image_links' = ImageLinks(product)
  /\ pc' = StartPc(ImageLinks(product))
  /\ UNCHANGED <<product, cur, processed_images, response, pending, d,
                 gemini_response, rows, errors, calls, logs, raised>>
  /\ UNCHANGED <<dvars, hvars, svars, gvars, fvars>>

\* Variant of ImageError: the exception of the failing call is let through.
ImageErrorRaw(op) == "Exception"

\* process_image, lines 135-136 and 144-145: what the except clause around
\* the GET, and the one around the upload, raise.
ImageError(op) ==
  IF op = "get" THEN "ImagePullError" ELSE "GenerativeAIError"

\* process_image, lines 130-136: the HTTP GET and raise_for_status.
HttpGet ==
  /\ pc = "get"
  /\ LET link == image_links[Len(processed_images) + 1] IN
     \E ok \in BOOLEAN :
       /\ calls' = Append(calls, Call("get", link, ok))
       /\ IF ok
            THEN /\ cur' = [image_link |-> link, ref |-> 0]
                 /\ pc' = "upload"
                 /\ UNCHANGED <<logs, raised>>
            ELSE /\ OnImageError(ImageError("get"))
                 /\ UNCHANGED cur
  /\ UNCHANGED <<product, image_links, processed_images, response, pending, d,
                 gemini_response, rows, errors>>
  /\ UNCHANGED <<dvars, hvars, svars, gvars, fvars>>

\* process_image, lines 139-145: files.upload.
FilesUpload ==
  /\ pc = "upload"
  /\ \E ok \in BOOLEAN :
       IF ok
         THEN /\ calls' = Append(calls, Call("upload", FreshRef, TRUE))
              /\ cur' = [cur EXCEPT !.ref = FreshRef]
              /\ pc' = "decode"
              /\ UNCHANGED <<logs, raised>>
         ELSE /\ calls' = Append(calls, Call("upload", 0, FALSE))
              /\ OnImageError(ImageError("upload"))
              /\ UNCHANGED cur
  /\ UNCHANGED <<product, image_links, processed_images, response, pending, d,
                 gemini_response, rows, errors>>
  /\ UNCHANGED <<dvars, hvars, svars, gvars, fvars>>

\* process_image, lines 148-161: hash, Image.open (not in a try: a body that
\* is no image raises PIL's own error), build the ProcessedImage.
ImageOpen ==
  /\ pc = "decode"
  /\ \E ok \in BOOLEAN :
       IF ok
         THEN /\ processed_images' =
                   Append(processed_images,
                          ProcessedImage(cur.image_link, cur.ref))
              /\ pc' = NextImagePc(Len(processed_images) + 1)
              /\ UNCHANGED <<logs, raised>>
         ELSE /\ OnImageError("UnidentifiedImageError")
              /\ UNCHANGED processed_images
  /\ UNCHANGED <<product, image_links, cur, response, pending, d,
                 gemini_response, rows, errors, calls>>
  /\ UNCHANGED <<dvars, hvars, svars, gvars, fvars>>

\* Longest image list of a product, and the label lists the model may
\* answer with: one longer than that, so that a mismatch goes both ways.
MaxImages == 1 + MaxAdditional

LabelLists == SeqsUpTo(ImageTypes, MaxImages + 1)

\* A generate_content response: parsed is None (<<>>) or a list of
\* LabeledImage dicts, text is the raw response text.
Responses ==
  [parsed : {<<>>} \cup {<<l>> : l \in LabelLists}, text : Texts]

\* Lines 208-216: response.parsed is usable and as long as the image list.
\* len(None) raises TypeError, a length mismatch raises ValueError; both are
\* caught by the except clause of line 217.
ParsedMatches(resp, pis) ==
  /\ resp.parsed # <<>>
  /\ Len(resp.parsed[1]) = Len(pis)

\* Variant of Labeled: the labels are written back last to first.
LabeledReversed(pis, labels) ==
  [k \in 1..Len(pis) |->
     [pis[k] EXCEPT !.labeled_image = <<[type |-> labels[Len(pis) + 1 - k]]>>]]

\* Lines 215-216: labels written back by position.
Labeled(pis, labels) ==
  [k \in 1..Len(pis) |->
     [pis[k] EXCEPT !.labeled_image = <<[type |-> labels[k]]>>]]

\* run_multimodal_query, lines 182-231: the try body and its except clause.
\* Whatever happens, control goes on to the finally block (cleanup).
GenerateContent ==
  /\ pc = "generate"
  /\ \/ \* generate_content raises: response stays None
        /\ calls' = Append(calls,
                           Call("generate_content", Len(processed_images),
                                FALSE))
        /\ response' = <<>>
        /\ logs' = Append(logs, QueryWarning(<<>>))
        /\ pending' = "GenerativeAIError"
        /\ UNCHANGED processed_images
     \/ \E resp \in Responses :
          /\ calls' = Append(calls,
                             Call("generate_content", Len(processed_images),
                                  TRUE))
          /\ response' = <<resp>>
          /\ IF ParsedMatches(resp, processed_images)
               THEN /\ processed_images' =
                         Labeled(processed_images, resp.parsed[1])
                    /\ pending' = "none"
                    /\ UNCHANGED logs
               ELSE /\ logs' = Append(logs, QueryWarning(<<resp.text>>))
                    /\ pending' = "GenerativeAIError"
                    /\ UNCHANGED processed_images
  /\ d' = 1
  /\ pc' = "cleanup"
  /\ UNCHANGED <<product, image_links, cur, gemini_response, rows, errors,
                 raised>>
  /\ UNCHANGED <<dvars, hvars, svars, gvars, fvars>>

\* Variant of CleanupList: the loop is left after its first image.
CleanupListFirstOnly(pis, exc) == SubSeq(pis, 1, Min(1, Len(pis)))

\* Variant of CleanupList: the loop placed after the try statement instead
\* of in its finally clause, so that it is skipped when an exception is
\* pending.
CleanupListOnSuccessOnly(pis, exc) == IF exc = "none" THEN pis ELSE <<>>

\* The images the finally loop of lines 232-237 walks: every submitted
\* image, whatever exception exc is pending.
CleanupList(pis, exc) == pis

\* Variant of DeleteFailed: the failure is passed over and the loop goes on.
DeleteFailedContinues ==
  /\ d' = d + 1
  /\ UNCHANGED <<pc, logs, raised>>

\* Lines 234-237: nothing in the finally loop catches an exception of
\* files.delete; it leaves the loop and run_multimodal_query, in place of
\* the pending exception or return, and reaches process_product's except.
DeleteFailed ==
  /\ Fail("APIError")
  /\ UNCHANGED d

\* run_multimodal_query, lines 232-237: one files.delete of the finally
\* loop.  An exception raised here is not caught inside the function: it
\* leaves the loop and replaces whatever was pending.
FilesDelete ==
  /\ pc = "cleanup"
  /\ d <= Len(CleanupList(processed_images, pending))
  /\ \E ok \in BOOLEAN :
       /\ calls' = Append(calls,
                          Call("delete",
                               CleanupList(processed_images, pending)[d]
                                 .genai_file_reference,
                               ok))
       /\ IF ok
            THEN /\ d' = d + 1
                 /\ UNCHANGED <<pc, logs, raised>>
            ELSE DeleteFailed
  /\ UNCHANGED <<product, image_links, cur, processed_images, response,
                 pending, gemini_response, rows, errors>>
  /\ UNCHANGED <<dvars, hvars, svars, gvars, fvars>>

\* run_multimodal_query left after the finally loop: the pending
\* GenerativeAIError propagates (line 231), or response.text is returned
\* (line 239) and process_product goes on to the insert.
QueryExit ==
  /\ pc = "cleanup"
  /\ d > Len(CleanupList(processed_images, pending))
  /\ IF pending # "none"
       THEN /\ Fail(pending)
            /\ UNCHANGED gemini_response
       ELSE /\ gemini_response' = <<response[1].text>>
            /\ pc' = "insert"
            /\ UNCHANGED <<logs, raised>>
  /\ UNCHANGED <<product, image_links, cur, processed_images, response,
                 pending, d, rows, errors, calls>>
  /\ UNCHANGED <<dvars, hvars, svars, gvars, fvars>>

\* Variant of Row: only the nested label is left out of asdict.
RowWithReference(pi, ts) ==
  ("timestamp" :> ts) @@ pi.labeled_image[1] @@
  [k \in DOMAIN pi \ {"labeled_image"} |-> pi[k]]

\* write_result_to_bigquery, lines 255-262: asdict without the two excluded
\* keys, updated with the label's fields, stamped.
Row(pi, ts) ==
  ("timestamp" :> ts) @@ pi.labeled_image[1] @@
  [k \in DOMAIN pi \ {"genai_file_reference", "labeled_image"} |-> pi[k]]

\* Variant of BuildRows: the timestamp is taken again for every row, and
\* the clock has moved on after the first.
BuildRowsStampedPerRow(pis, ts) ==
  [k \in 1..Len(pis) |->
     Row(pis[k], IF k = 1 THEN ts ELSE CHOOSE t \in Clock : t # ts)]

\* write_result_to_bigquery, lines 250-262: one row per image in list order,
\* all stamped with the one timestamp taken before the loop.
BuildRows(pis, ts) == [k \in 1..Len(pis) |-> Row(pis[k], ts)]

\* What insert_rows_json may return for a request of n rows: the list of
\* the rows it could not insert, empty when every row was inserted.
InsertErrors(n) == SUBSET (1..n)

\* Variant of InsertRaises: only an insert call that throws is an error.
InsertRaisesOnThrowOnly(threw, errs) == threw

\* write_result_to_bigquery, lines 263-268: the insert call threw, or it
\* returned a non-empty list of row errors (raised inside the try and wrapped
\* by its except clause); either way BigQueryWriteError leaves the function.
InsertRaises(threw, errs) == threw \/ errs # {}

\* write_result_to_bigquery (lines 250-268) and the end of process_product
\* (lines 295-305).  row.update(None) is a TypeError outside the try.
WriteResultToBigQuery ==
  /\ pc = "insert"
  /\ IF \E k \in 1..Len(processed_images) :
          processed_images[k].labeled_image = <<>>
       THEN /\ Fail("TypeError")
            /\ UNCHANGED <<rows, errors, calls>>
       ELSE \E ts \in Clock, threw \in BOOLEAN,
               errs \in InsertErrors(Len(processed_images)) :
              /\ rows' = BuildRows(processed_images, ts)
              /\ calls' = Append(calls,
                                 Call("insert", Len(processed_images),
                                      ~threw))
              /\ errors' = IF threw THEN <<>> ELSE <<errs>>
              /\ IF InsertRaises(threw, errs)
                   THEN Fail("BigQueryWriteError")
                   ELSE /\ logs' = Append(logs,
                                          LogRecord("info", "[COMPLETED]", <<>>,
                                                    gemini_response))
                        /\ pc' = "done"
                        /\ UNCHANGED raised
  /\ UNCHANGED <<product, image_links, cur, processed_images, response,
                 pending, d, gemini_response>>
  /\ UNCHANGED <<dvars, hvars, svars, gvars, fvars>>

\* ===================================================================
\*              ENTRY POINTS AND HELPERS: DATA AND IDLE STATES
\* ===================================================================

\* ---- processing endpoint (src/src/classify_product/main.py)
Methods == {"POST", "GET"}

ContentTypes == {"application/json", "text/plain"}

\* What request.get_json(silent=True) yields, by how line 60 and
\* Product(**request_json) treat it: None (no body, or a body that does not
\* parse), an empty dict, a non-empty value that is no mapping, a dict that
\* lacks a field of Product or has a key Product does not know, or a dict
\* with exactly Product's fields.
JsonKinds ==
  {"none", "empty", "not_a_mapping", "missing_key", "unexpected_key"}

JsonBodies ==
  [kind : JsonKinds, fields : {NoProduct}] \cup
  [kind : {"product"}, fields : Products]

HttpRequests ==
  [method : Methods, content_type : ContentTypes, json : JsonBodies]

NoRequest ==
  [method |-> "GET", content_type |-> "text/plain",
   json |-> [kind |-> "none", fields |-> NoProduct]]

EndpointIdle ==
  /\ request = NoRequest
  /\ reply = <<>>

\* ---- module initialization of the two entry points
Entries == {"classify_product", "push_products"}

\* classify_product/main.py, line 30.
ClassifierEnv == {"PROJECT_ID", "DATASET_ID", "TABLE_NAME", "MODEL_NAME"}

\* push_products/main.py, lines 28-36.
DistributorEnv ==
  {"PROJECT_ID", "DATASET_ID", "LOCATION", "QUEUE_ID", "CLOUD_FUNCTION_URL"}

RequiredEnv(e) ==
  IF e = "classify_product" THEN ClassifierEnv ELSE DistributorEnv

EnvVars == ClassifierEnv \cup DistributorEnv

StartupIdle ==
  /\ env = {}
  /\ loaded = [e \in Entries |-> "no"]
  /\ config = [e \in Entries |-> [v \in RequiredEnv(e) |-> "unbound"]]
  /\ served = [e \in Entries |-> FALSE]

\* ---- generate_bigquery_schema_string
SchemaIdle ==
  /\ labeled_image_class = <<>>
  /\ schema_string = <<>>

\* ---- ProductFilter (src/src/shared/common.py)
NoCriteria == [product_type |-> <<>>, brands |-> <<>>, offer_ids |-> <<>>]

FilterIdle ==
  /\ filter_args = NoCriteria
  /\ product_filter = <<>>
  /\ sql_filter = <<>>

\* ===================================================================
\*                       SPECIFICATION: CLASSIFIER
\* ===================================================================

\* The distributor's state before any run has started.
DistributorIdle ==
  /\ dpc = [r \in Runs |-> "idle"]
  /\ products = [r \in Runs |-> <<>>]
  /\ idx = [r \in Runs |-> 0]
  /\ success_count = [r \in Runs |-> 0]
  /\ failure_count = [r \in Runs |-> 0]
  /\ failed_products = [r \in Runs |-> <<>>]
  /\ probe = [r \in Runs |-> <<>>]
  /\ probed = [r \in Runs |-> <<>>]
  /\ pushed = [r \in Runs |-> <<>>]
  /\ push_error = [r \in Runs |-> "none"]
  /\ rcalls = [r \in Runs |-> <<>>]
  /\ outcome = [r \in Runs |-> "none"]
  /\ overlapped = FALSE

\* The classifier's state when process_product is about to be entered
\* (pcInit: "start"), or when no invocation is modelled (pcInit: "off").
ClassifierAt(pcInit, prods) ==
  /\ product \in prods
  /\ pc = pcInit
  /\ image_links = <<>>
  /\ cur = [image_link |-> None, ref |-> 0]
  /\ processed_images = <<>>
  /\ response = <<>>
  /\ pending = "none"
  /\ d = 0
  /\ gemini_response = <<>>
  /\ rows = <<>>
  /\ errors = <<>>
  /\ calls = <<>>
  /\ logs = <<>>
  /\ raised = "none"

InitClassifier ==
  /\ ClassifierAt("start", Products)
  /\ DistributorIdle
  /\ queue = <<>>
  /\ EndpointIdle
  /\ StartupIdle
  /\ SchemaIdle
  /\ FilterIdle

NextClassifier ==
  \/ ProcessProductStart
  \/ HttpGet
  \/ FilesUpload
  \/ ImageOpen
  \/ GenerateContent
  \/ FilesDelete
  \/ QueryExit
  \/ WriteResultToBigQuery

SpecClassifier == InitClassifier /\ [][NextClassifier]_vars

\* ===================================================================
\*                              DISTRIBUTOR
\* ===================================================================

\* The products of the source view, by offer id.
ProductIds == 1..MaxProducts

Requests == {NoBody, NoLimitKey} \cup 1..MaxProducts

\* main.run, line 43.
ProductLimit(req) ==
  IF req = NoLimitKey THEN DEFAULT_PRODUCT_LIMIT ELSE req

\* What the query of get_new_products_from_view may return under LIMIT n:
\* any rows of the view, in the view's order, at most n of them.
ViewResults(n) ==
  {s \in SeqsUpTo(ProductIds, Min(n, MaxProducts)) :
     \A i, j \in 1..Len(s) : i < j => s[i] < s[j]}

RCallsOf(r, op) == SelectSeq(rcalls[r], LAMBDA c : c.op = op)

\* A run ends: the handler returns ('OK', 200) or an exception leaves it.
EndRun(r, how) ==
  /\ dpc' = [dpc EXCEPT ![r] = "done"]
  /\ outcome' = [outcome EXCEPT ![r] = how]

\* main.run, lines 42-53: the request body, the ProductPusher and
\* get_new_products_from_view (push_products_lib.py, lines 156-181).
RunFetch(r) ==
  /\ dpc[r] = "idle"
  /\ overlapped' =
       (overlapped \/ \E o \in Runs \ {r} : dpc[o] \notin {"idle", "done"})
  /\ \E req \in Requests :
       IF req = NoBody
         THEN \* None.get(...) raises AttributeError
              /\ EndRun(r, "AttributeError")
              /\ UNCHANGED <<products, rcalls>>
         ELSE \/ /\ rcalls' = [rcalls EXCEPT
                                 ![r] = Append(@, Call("query", 0, FALSE))]
                 /\ EndRun(r, "BigQueryReadError")
                 /\ UNCHANGED products
              \/ \E rs \in ViewResults(ProductLimit(req)) :
                   /\ rcalls' = [rcalls EXCEPT
                                   ![r] = Append(@, Call("query", 0, TRUE))]
                   /\ products' = [products EXCEPT ![r] = rs]
                   /\ dpc' = [dpc EXCEPT ![r] = "gate"]
                   /\ UNCHANGED outcome
  /\ UNCHANGED <<idx, success_count, failure_count, failed_products, probe,
                 probed, pushed, push_error, queue>>
  /\ UNCHANGED <<cvars, hvars, svars, gvars, fvars>>

\* main.run, lines 54 and 64-66: no products, nothing to push.
NoNewProducts(r) ==
  /\ dpc[r] = "gate"
  /\ products[r] = <<>>
  /\ EndRun(r, "OK")
  /\ UNCHANGED <<products, idx, success_count, failure_count, failed_products,
                 probe, probed, pushed, push_error, rcalls, queue, overlapped>>
  /\ UNCHANGED <<cvars, hvars, svars, gvars, fvars>>

\* list_tasks with page_size n: response.tasks is the first page.
ListTasksPage(q, n) == SubSeq(q, 1, Min(n, Len(q)))

\* Variant of IsQueueEmptyResult: the negation left out.
IsQueueEmptyResultInverted(tasks) == Len(tasks) > 0

\* is_queue_empty, line 90: not bool(list(response.tasks)).
IsQueueEmptyResult(tasks) == ~(Len(tasks) > 0)

\* Variant of GateRefuses: the run pushes whatever the probe answered.
GateRefusesNever(is_empty) == FALSE

\* main.run, line 56: if not product_pusher.is_queue_empty(): raise.
GateRefuses(is_empty) == ~is_empty

\* Variant of ProbeFailed: the error is swallowed and the queue reported
\* empty.
ProbeFailedReadsEmpty(r) ==
  /\ probe' = [probe EXCEPT ![r] = <<TRUE>>]
  /\ dpc' = [dpc EXCEPT ![r] = "push"]
  /\ UNCHANGED <<probed, outcome>>

\* is_queue_empty, lines 91-92: an exception of list_tasks is raised again
\* as CloudTasksPublishError; nothing is returned, and main.run ends in it.
ProbeFailed(r) ==
  /\ EndRun(r, "CloudTasksPublishError")
  /\ UNCHANGED <<probe, probed>>

\* main.run, lines 54-60, with is_queue_empty (push_products_lib.py, lines
\* 84-92): queue_path is resolved outside the try, list_tasks inside it.
IsQueueEmpty(r) ==
  /\ dpc[r] = "gate"
  /\ products[r] # <<>>
  /\ \/ /\ rcalls' = [rcalls EXCEPT
                        ![r] = Append(@, Call("queue_path", 0, FALSE))]
        /\ EndRun(r, "Exception")
        /\ UNCHANGED <<probe, probed>>
     \/ /\ rcalls' = [rcalls EXCEPT
                        ![r] = @ \o <<Call("queue_path", 0, TRUE),
                                      Call("list_tasks", PAGE_SIZE, FALSE)>>]
        /\ ProbeFailed(r)
     \/ LET tasks == ListTasksPage(queue, PAGE_SIZE)
            is_empty == IsQueueEmptyResult(tasks)
        IN  /\ rcalls' = [rcalls EXCEPT
                            ![r] = @ \o <<Call("queue_path", 0, TRUE),
                                          Call("list_tasks", PAGE_SIZE, TRUE)>>]
            /\ probed' = [probed EXCEPT ![r] = tasks]
            /\ probe' = [probe EXCEPT ![r] = <<is_empty>>]
            /\ IF GateRefuses(is_empty)
                 THEN EndRun(r, "CloudTasksQueueNotEmptyError")
                 ELSE /\ dpc' = [dpc EXCEPT ![r] = "push"]
                      /\ UNCHANGED outcome
  /\ UNCHANGED <<products, idx, success_count, failure_count, failed_products,
                 pushed, push_error, queue, overlapped>>
  /\ UNCHANGED <<cvars, hvars, svars, gvars, fvars>>

\* push_products, lines 203-218: the counters and the queue path.
PushStart(r) ==
  /\ dpc[r] = "push"
  /\ \/ /\ rcalls' = [rcalls EXCEPT
                        ![r] = Append(@, Call("queue_path", 0, FALSE))]
        /\ push_error' = [push_error EXCEPT ![r] = "CloudTasksPublishError"]
        /\ EndRun(r, "CloudTasksPublishError")
     \/ /\ rcalls' = [rcalls EXCEPT
                        ![r] = Append(@, Call("queue_path", 0, TRUE))]
        /\ dpc' = [dpc EXCEPT ![r] = "create"]
        /\ UNCHANGED <<push_error, outcome>>
  /\ idx' = [idx EXCEPT ![r] = 0]
  /\ success_count' = [success_count EXCEPT ![r] = 0]
  /\ failure_count' = [failure_count EXCEPT ![r] = 0]
  /\ failed_products' = [failed_products EXCEPT ![r] = <<>>]
  /\ UNCHANGED <<products, probe, probed, pushed, queue, overlapped>>
  /\ UNCHANGED <<cvars, hvars, svars, gvars, fvars>>

\* Variant of TaskCreated: a created task is not counted.
TaskCreatedUncounted(r, p) ==
  /\ queue' = Append(queue, p)
  /\ idx' = [idx EXCEPT ![r] = @ + 1]
  /\ UNCHANGED <<success_count, failure_count, failed_products, push_error,
                 dpc, outcome>>

\* push_products, lines 237-238: the task was created.
TaskCreated(r, p) ==
  /\ queue' = Append(queue, p)
  /\ success_count' = [success_count EXCEPT ![r] = @ + 1]
  /\ idx' = [idx EXCEPT ![r] = @ + 1]
  /\ UNCHANGED <<failure_count, failed_products, push_error, dpc, outcome>>

\* Variant of TaskFailed: the exception of create_task leaves push_products.
TaskFailedRaises(r, p) ==
  /\ push_error' = [push_error EXCEPT ![r] = "CloudTasksPublishError"]
  /\ EndRun(r, "CloudTasksPublishError")
  /\ UNCHANGED <<queue, success_count, failure_count, failed_products, idx>>

\* Variant of TaskFailed: the loop is left at the first failure.
TaskFailedBreaks(r, p) ==
  /\ failure_count' = [failure_count EXCEPT ![r] = @ + 1]
  /\ failed_products' = [failed_products EXCEPT ![r] = Append(@, p)]
  /\ idx' = [idx EXCEPT ![r] = Len(products[r])]
  /\ UNCHANGED <<queue, success_count, push_error, dpc, outcome>>

\* push_products, lines 240-246: create_task raised; counted, logged, and
\* the loop goes on.
TaskFailed(r, p) ==
  /\ failure_count' = [failure_count EXCEPT ![r] = @ + 1]
  /\ failed_products' = [failed_products EXCEPT ![r] = Append(@, p)]
  /\ idx' = [idx EXCEPT ![r] = @ + 1]
  /\ UNCHANGED <<queue, success_count, push_error, dpc, outcome>>

\* push_products, lines 220-246: one turn of the loop.
CreateTask(r) ==
  /\ dpc[r] = "create"
  /\ idx[r] < Len(products[r])
  /\ LET p == products[r][idx[r] + 1] IN
     \E ok \in BOOLEAN :
       /\ rcalls' = [rcalls EXCEPT
                       ![r] = Append(@, Call("create_task", p, ok))]
       /\ IF ok THEN TaskCreated(r, p) ELSE TaskFailed(r, p)
  /\ UNCHANGED <<products, probe, probed, pushed, overlapped>>
  /\ UNCHANGED <<cvars, hvars, svars, gvars, fvars>>

\* Variant of RunResult: a run none of whose tasks was created fails.
RunResultFailsOnAllFailed(s, f) ==
  IF s = 0 /\ f > 0 THEN "CloudTasksPublishError" ELSE "OK"

\* main.run, lines 61-66: the return value of push_products is discarded
\* and the run answers 'OK', 200.
RunResult(s, f) == "OK"

\* push_products, lines 248-265, and main.run, line 66.
PushReturn(r) ==
  /\ dpc[r] = "create"
  /\ idx[r] = Len(products[r])
  /\ pushed' = [pushed EXCEPT ![r] = <<success_count[r], failure_count[r]>>]
  /\ EndRun(r, RunResult(success_count[r], failure_count[r]))
  /\ UNCHANGED <<products, idx, success_count, failure_count, failed_products,
                 probe, probed, push_error, rcalls, queue, overlapped>>
  /\ UNCHANGED <<cvars, hvars, svars, gvars, fvars>>

\* The queue service dispatches the oldest pending task to the processing
\* endpoint and removes it from the queue.
DispatchTask ==
  /\ queue # <<>>
  /\ queue' = Tail(queue)
  /\ UNCHANGED <<dpc, products, idx, success_count, failure_count,
                 failed_products, probe, probed, pushed, push_error, rcalls,
                 outcome, overlapped>>
  /\ UNCHANGED <<cvars, hvars, svars, gvars, fvars>>

\* ===================================================================
\*                      SPECIFICATION: DISTRIBUTOR
\* ===================================================================

InitDistributor ==
  /\ ClassifierAt("off", {NoProduct})
  /\ DistributorIdle
  /\ queue = <<>>
  /\ EndpointIdle
  /\ StartupIdle
  /\ SchemaIdle
  /\ FilterIdle

NextDistributor ==
  \/ \E r \in Runs :
       \/ RunFetch(r)
       \/ NoNewProducts(r)
       \/ IsQueueEmpty(r)
       \/ PushStart(r)
       \/ CreateTask(r)
       \/ PushReturn(r)
  \/ DispatchTask

SpecDistributor == InitDistributor /\ [][NextDistributor]_vars

\* ===================================================================
\*                        PROCESSING ENDPOINT
\* ===================================================================

\* classify_product/main.py, line 60: not request_json.
IsFalsy(json) == json.kind \in {"none", "empty"}

\* Line 62: Product(**request_json) returns a Product; otherwise it raises
\* TypeError, caught at line 63.
Deserializes(json) == json.kind = "product"

\* What leaves the handler: a (body, status) pair it returns, or an
\* exception it does not handle (status 0: the handler made no response).
Answer(body, status) ==
  [status |-> status, body |-> body, exception |-> "none"]

Unhandled(e) == [status |-> 0, body |-> "", exception |-> e]

\* Variant of Rejection: the content type is checked before the method.
RejectionTypeFirst(req) ==
  IF req.content_type # "application/json"
    THEN <<Answer("Unsupported Media Type", 415)>>
  ELSE IF req.method # "POST"
    THEN <<Answer("Method Not Allowed", 405)>>
  ELSE IF IsFalsy(req.json)
    THEN <<Answer("Bad Request: No JSON data provided", 400)>>
  ELSE IF ~Deserializes(req.json)
    THEN <<Answer("Bad Request: Invalid JSON format", 400)>>
  ELSE <<>>

\* run, lines 53-64: the response that turns the request away, <<>> when
\* the request is let through to process_product.
Rejection(req) ==
  IF req.method # "POST"
    THEN <<Answer("Method Not Allowed", 405)>>
  ELSE IF req.content_type # "application/json"
    THEN <<Answer("Unsupported Media Type", 415)>>
  ELSE IF IsFalsy(req.json)
    THEN <<Answer("Bad Request: No JSON data provided", 400)>>
  ELSE IF ~Deserializes(req.json)
    THEN <<Answer("Bad Request: Invalid JSON format", 400)>>
  ELSE <<>>

\* Variant of HandlerResult: an exception of process_product is swallowed.
HandlerResultAlwaysOk(e) == Answer("OK", 200)

\* run, lines 66-68: process_product is called outside any try, so its
\* exception leaves the handler; 'OK', 200 is returned after it returned.
HandlerResult(e) == IF e = "none" THEN Answer("OK", 200) ELSE Unhandled(e)

\* run, lines 53-66: the checks, then the call of process_product.
Run ==
  /\ pc = "off"
  /\ reply = <<>>
  /\ IF Rejection(request) # <<>>
       THEN /\ reply' = Rejection(request)
            /\ UNCHANGED <<product, pc>>
       ELSE /\ product' = request.json.fields
            /\ pc' = "start"
            /\ UNCHANGED reply
  /\ UNCHANGED <<image_links, cur, processed_images, response, pending, d,
                 gemini_response, rows, errors, calls, logs, raised>>
  /\ UNCHANGED <<request, dvars, svars, gvars, fvars>>

\* run, lines 66-68: process_product has returned or raised.
RunReturn ==
  /\ pc = "done"
  /\ reply = <<>>
  /\ reply' = <<HandlerResult(raised)>>
  /\ UNCHANGED <<cvars, request, dvars, svars, gvars, fvars>>

InitEndpoint ==
  /\ ClassifierAt("off", {NoProduct})
  /\ DistributorIdle
  /\ queue = <<>>
  /\ request \in HttpRequests
  /\ reply = <<>>
  /\ StartupIdle
  /\ SchemaIdle
  /\ FilterIdle

NextEndpoint ==
  \/ Run
  \/ NextClassifier
  \/ RunReturn

SpecEndpoint == InitEndpoint /\ [][NextEndpoint]_vars
\* ===================================================================
\*                      START OF THE ENTRY POINTS
\* ===================================================================

\* os.environ.get(v, default): the variable's value if it is set.
EnvironGet(v, default) == IF v \in env THEN "value" ELSE default

\* classify_product/main.py, lines 29-38: a variable for which
\* os.environ.get returns None raises KeyError and the module does not
\* load; otherwise the four values are bound.
LoadClassifier ==
  /\ loaded["classify_product"] = "no"
  /\ IF \E v \in ClassifierEnv : EnvironGet(v, "None") = "None"
       THEN /\ loaded' = [loaded EXCEPT !["classify_product"] = "KeyError"]
            /\ UNCHANGED config
       ELSE /\ loaded' = [loaded EXCEPT !["classify_product"] = "ready"]
            /\ config' = [config EXCEPT
                            !["classify_product"] =
                              [v \in ClassifierEnv |-> EnvironGet(v, "None")]]
  /\ UNCHANGED <<env, served>>
  /\ UNCHANGED <<cvars, dvars, hvars, gvars, fvars>>

\* push_products/main.py, lines 27-36: every value is read with
\* os.environ.get and a default text ('... env variable is not set.'), and
\* nothing is checked: the module loads whatever is set.
LoadDistributor ==
  /\ loaded["push_products"] = "no"
  /\ loaded' = [loaded EXCEPT !["push_products"] = "ready"]
  /\ config' = [config EXCEPT
                  !["push_products"] =
                    [v \in DistributorEnv |-> EnvironGet(v, "is not set.")]]
  /\ UNCHANGED <<env, served>>
  /\ UNCHANGED <<cvars, dvars, hvars, gvars, fvars>>

\* The serving framework hands a request to the run function of an entry
\* point whose module has loaded.
HandleRequest(e) ==
  /\ loaded[e] = "ready"
  /\ ~served[e]
  /\ served' = [served EXCEPT ![e] = TRUE]
  /\ UNCHANGED <<env, loaded, config>>
  /\ UNCHANGED <<cvars, dvars, hvars, gvars, fvars>>

InitStartup ==
  /\ ClassifierAt("off", {NoProduct})
  /\ DistributorIdle
  /\ queue = <<>>
  /\ EndpointIdle
  /\ env \in SUBSET EnvVars
  /\ loaded = [e \in Entries |-> "no"]
  /\ config = [e \in Entries |-> [v \in RequiredEnv(e) |-> "unbound"]]
  /\ served = [e \in Entries |-> FALSE]
  /\ SchemaIdle
  /\ FilterIdle

NextStartup ==
  \/ LoadClassifier
  \/ LoadDistributor
  \/ \E e \in Entries : HandleRequest(e)

SpecStartup == InitStartup /\ [][NextStartup]_vars
\* ===================================================================
\*                  generate_bigquery_schema_string
\* ===================================================================

\* The types a field of the label class may be annotated with: a plain type
\* (origin "none"), list[arg] or dict[str, arg].  bytes stands for the plain
\* types the generator has no branch for.
Scalars == {"str", "enum", "int", "float", "bool", "bytes"}

Origins == {"none", "list", "dict"}

FieldTypes == [origin : Origins, arg : Scalars]

\* A TypedDict class: the types of its fields in declaration order, the
\* k-th field being named FieldName(k).
LabelClasses == SeqsUpTo(FieldTypes, MaxFields)

FieldName(k) == ToString(k)

SchemaField(name, type, mode) == [name |-> name, type |-> type, mode |-> mode]

\* default_schema_fields, lines 37-69.
DefaultSchemaFields ==
  <<SchemaField("image_link", "STRING", "NULLABLE"),
    SchemaField("mime_type", "STRING", "NULLABLE"),
    SchemaField("width", "INTEGER", "NULLABLE"),
    SchemaField("height", "INTEGER", "NULLABLE"),
    SchemaField("sha256_hash", "STRING", "NULLABLE"),
    SchemaField("timestamp", "TIMESTAMP", "NULLABLE")>>

\* Lines 86-88 and 115-117: str, or a class with enum.Enum in its __mro__.
IsStrOrEnum(t) == t \in {"str", "enum"}

\* One turn of the loop of lines 85-136 for a field: the columns it appends
\* to the schema, or the TypeError of line 136.  A list whose element type
\* matches none of lines 115-134 enters the list branch and leaves it
\* without appending and without reaching the else clause.
FieldOutcome(name, ft) ==
  IF ft.origin = "none" /\ IsStrOrEnum(ft.arg)
    THEN [raises |-> FALSE,
          appended |-> <<SchemaField(name, "STRING", "NULLABLE")>>]
  ELSE IF ft.origin = "none" /\ ft.arg = "int"
    THEN [raises |-> FALSE,
          appended |-> <<SchemaField(name, "INTEGER", "NULLABLE")>>]
  ELSE IF ft.origin = "none" /\ ft.arg = "float"
    THEN [raises |-> FALSE,
          appended |-> <<SchemaField(name, "FLOAT", "NULLABLE")>>]
  ELSE IF ft.origin = "none" /\ ft.arg = "bool"
    THEN [raises |-> FALSE,
          appended |-> <<SchemaField(name, "BOOLEAN", "NULLABLE")>>]
  ELSE IF ft.origin = "list"
    THEN IF IsStrOrEnum(ft.arg)
           THEN [raises |-> FALSE,
                 appended |-> <<SchemaField(name, "STRING", "REPEATED")>>]
         ELSE IF ft.arg = "int"
           THEN [raises |-> FALSE,
                 appended |-> <<SchemaField(name, "INTEGER", "REPEATED")>>]
         ELSE IF ft.arg = "float"
           THEN [raises |-> FALSE,
                 appended |-> <<SchemaField(name, "FLOAT", "REPEATED")>>]
         ELSE [raises |-> FALSE, appended |-> <<>>]
  ELSE [raises |-> TRUE, appended |-> <<>>]

\* The loop of lines 85-136 from field k on, schema being built so far.
RECURSIVE SchemaLoop(_, _, _)
SchemaLoop(cls, k, schema) ==
  IF k > Len(cls)
    THEN [exception |-> "none", value |-> JsonDumps(schema)]
  ELSE IF FieldOutcome(FieldName(k), cls[k]).raises
    THEN [exception |-> "TypeError", value |-> JsonDumps(<<>>)]
  ELSE SchemaLoop(cls, k + 1,
                  schema \o FieldOutcome(FieldName(k), cls[k]).appended)

\* generate_bigquery_schema_string, lines 84-138.
GenerateBigquerySchemaString(cls) == SchemaLoop(cls, 1, DefaultSchemaFields)

\* The helper is run on a label class.
GenerateSchema ==
  /\ schema_string = <<>>
  /\ schema_string' = <<GenerateBigquerySchemaString(labeled_image_class)>>
  /\ UNCHANGED labeled_image_class
  /\ UNCHANGED <<cvars, dvars, hvars, svars, fvars>>

InitSchema ==
  /\ ClassifierAt("off", {NoProduct})
  /\ DistributorIdle
  /\ queue = <<>>
  /\ EndpointIdle
  /\ StartupIdle
  /\ labeled_image_class \in LabelClasses
  /\ schema_string = <<>>
  /\ FilterIdle

NextSchema == GenerateSchema

SpecSchema == InitSchema /\ [][NextSchema]_vars
\* ===================================================================
\*                            ProductFilter
\* ===================================================================

\* product_type: Optional[str] (<<>> is None); the empty string is a value.
ProductTypes == {"", "shoes"}

\* Entries of brands and offer_ids, as given.
CriterionValues == {"Acme", " acme "}

OptionalStrs == {<<>>} \cup {<<t>> : t \in ProductTypes}

\* Optional[list[str]]: <<>> is None, <<l>> the list l.
OptionalLists == {<<>>} \cup {<<l>> : l \in SeqsUpTo(CriterionValues, MaxCriteria)}

FilterArgs ==
  [product_type : OptionalStrs, brands : OptionalLists,
   offer_ids : OptionalLists]

\* Python truth of an Optional[str] and of an Optional[list]: None, '' and
\* [] are false.
StrIsSet(o) == o # <<>> /\ o[1] # ""

ListIsSet(o) == o # <<>> /\ o[1] # <<>>

\* s.strip().lower()
StripLower(x) == IF x \in {"Acme", " acme "} THEN "acme" ELSE x

\* Variant of PostInitRaises: only None counts as not set.
PostInitRaisesOnNoneOnly(f) ==
  f.product_type = <<>> /\ f.brands = <<>> /\ f.offer_ids = <<>>

\* __post_init__, line 57.
PostInitRaises(f) ==
  ~StrIsSet(f.product_type) /\ ~ListIsSet(f.brands) /\ ~ListIsSet(f.offer_ids)

SqlClause(column, op, values) ==
  [column |-> column, op |-> op, values |-> values]

\* get_sql_filter, lines 62-79: the clauses joined by AND, in this order
\* (<<>> is the empty string).
GetSqlFilter(f) ==
  (IF StrIsSet(f.product_type)
     THEN <<SqlClause("product_type", "LIKE", <<f.product_type[1]>>)>>
     ELSE <<>>) \o
  (IF ListIsSet(f.brands)
     THEN <<SqlClause("brand", "IN",
                      [k \in 1..Len(f.brands[1]) |->
                         StripLower(f.brands[1][k])])>>
     ELSE <<>>) \o
  (IF ListIsSet(f.offer_ids)
     THEN <<SqlClause("offer_id", "IN",
                      [k \in 1..Len(f.offer_ids[1]) |->
                         StripLower(f.offer_ids[1][k])])>>
     ELSE <<>>)

\* ProductFilter(...): the generated __init__ binds the fields and calls
\* __post_init__ (lines 52-60).
ConstructFilter ==
  /\ product_filter = <<>>
  /\ product_filter' =
       <<IF PostInitRaises(filter_args)
           THEN [exception |-> "ProductFilterError", fields |-> NoCriteria]
           ELSE [exception |-> "none", fields |-> filter_args]>>
  /\ UNCHANGED <<filter_args, sql_filter>>
  /\ UNCHANGED <<cvars, dvars, hvars, svars, gvars>>

\* get_new_products_from_view and get_all_products_from_view called with
\* the filter (push_products_lib.py, lines 112 and 156): the WHERE clause.
BuildQuery ==
  /\ product_filter # <<>>
  /\ product_filter[1].exception = "none"
  /\ sql_filter = <<>>
  /\ sql_filter' = <<GetSqlFilter(product_filter[1].fields)>>
  /\ UNCHANGED <<filter_args, product_filter>>
  /\ UNCHANGED <<cvars, dvars, hvars, svars, gvars>>

InitFilter ==
  /\ ClassifierAt("off", {NoProduct})
  /\ DistributorIdle
  /\ queue = <<>>
  /\ EndpointIdle
  /\ StartupIdle
  /\ SchemaIdle
  /\ filter_args \in FilterArgs
  /\ product_filter = <<>>
  /\ sql_filter = <<>>

NextFilter ==
  \/ ConstructFilter
  \/ BuildQuery

SpecFilter == InitFilter /\ [][NextFilter]_vars

\* ===================================================================
\*                      PROPERTIES OF THE CLASSIFIER
\* ===================================================================

\* References returned by the successful files.upload calls, in order.
UploadedRefs == Args(OkCallsOf("upload"))

DeleteCount(ref) ==
  Len(SelectSeq(calls, LAMBDA c : c.op = "delete" /\ c.arg = ref))

\* run_multimodal_query issues generate_content as its first external call.
QueryEntered == CallsOf("generate_content") # <<>>

\* run_multimodal_query was entered and has returned or raised.
QueryLeft == QueryEntered /\ pc \in {"insert", "done"}

\* The response's parsed label list is a list whose length differs from the
\* number of submitted images.
LabelCountMismatch ==
  /\ response # <<>>
  /\ response[1].parsed # <<>>
  /\ Len(response[1].parsed[1]) # Len(processed_images)

\* C1 as stated: when the invocation has ended, files.delete was called
\* exactly once for the reference of every image whose upload succeeded,
\* on every path that follows the upload.
C1_DeletedExactlyOncePerUpload ==
  pc = "done" =>
    \A k \in 1..Len(UploadedRefs) : DeleteCount(UploadedRefs[k]) = 1

\* C1 amended: files.delete is called at most once per uploaded reference, in
\* upload order, and only a files.delete that raises ends the cleanup early.
\* An invocation that entered run_multimodal_query and in which no
\* files.delete raised has deleted every uploaded reference exactly once,
\* whether it ended well, in an inference failure, a label-count mismatch or
\* an insert failure; an invocation that failed before run_multimodal_query
\* (a fetch, an upload or a local decode failing) has deleted nothing.
C1_CleanupOncePerQueriedImage ==
  LET dels == CallsOf("delete") IN
  /\ IsPrefix(Args(dels), UploadedRefs)
  /\ \A k \in 1..Len(dels) : ~dels[k].ok => k = Len(dels)
  /\ pc = "done" =>
       IF QueryEntered
         THEN (\A k \in 1..Len(dels) : dels[k].ok) => Args(dels) = UploadedRefs
         ELSE dels = <<>>

\* C1 witness: an insert failure, after the upload of two images, with both
\* references deleted.
C1_Witness ==
  /\ pc = "done"
  /\ raised = "BigQueryWriteError"
  /\ Len(UploadedRefs) >= 2
  /\ Args(CallsOf("delete")) = UploadedRefs

\* C2: once run_multimodal_query has returned or raised, files.delete has
\* been called once for the reference of every submitted image, in list
\* order.
C2_EveryReferenceDeleted ==
  QueryLeft => Args(CallsOf("delete")) = Refs(processed_images)

\* C3: a parsed label list of the wrong length always ends
\* run_multimodal_query in GenerativeAIError, with files.delete called for
\* every submitted image's reference.
C3_MismatchRaisesAndCleansUp ==
  (QueryLeft /\ LabelCountMismatch) =>
    /\ pc = "done"
    /\ raised = "GenerativeAIError"
    /\ Args(CallsOf("delete")) = Refs(processed_images)

\* C9: once the fetch or the upload of an image has failed, no later image
\* is fetched, generate_content is never issued and no insert is made.
C9_FailedImageAbortsProduct ==
  \A k \in 1..Len(calls) :
    (calls[k].op \in {"get", "upload"} /\ ~calls[k].ok) =>
      /\ \A j \in (k + 1)..Len(calls) : calls[j].op # "get"
      /\ CallsOf("generate_content") = <<>>
      /\ CallsOf("insert") = <<>>
      /\ rows = <<>>

\* C9 witness: the invocation ended on a failed fetch or upload while images
\* of the product were still to be fetched.
C9_Witness ==
  /\ pc = "done"
  /\ calls # <<>>
  /\ calls[Len(calls)].op \in {"get", "upload"}
  /\ ~calls[Len(calls)].ok
  /\ Len(CallsOf("get")) < Len(image_links)

\* The stage of the per-product state machine the invocation is in.
Stage ==
  CASE pc \in {"start", "get", "upload", "decode"} -> "PENDING"
    [] pc \in {"generate", "cleanup"} -> "IMAGES_FETCHED"
    [] pc = "insert" -> "CLASSIFIED"
    [] pc = "done" /\ raised = "none" -> "PERSISTED"
    [] OTHER -> "FAILED"

StageSteps ==
  {<<"PENDING", "IMAGES_FETCHED">>, <<"IMAGES_FETCHED", "CLASSIFIED">>,
   <<"CLASSIFIED", "PERSISTED">>, <<"PENDING", "FAILED">>,
   <<"IMAGES_FETCHED", "FAILED">>, <<"CLASSIFIED", "FAILED">>}

\* Every image of the product was fetched and uploaded, in list order, by
\* the calls before position k.
AllImagesFetchedBefore(k) ==
  LET links == ImageLinks(product) IN
  /\ k - 1 = 2 * Len(links)
  /\ \A i \in 1..Len(links) :
       /\ calls[2 * i - 1] = Call("get", links[i], TRUE)
       /\ calls[2 * i].op = "upload"
       /\ calls[2 * i].ok

\* run_multimodal_query returned (did not raise) between its
\* generate_content call at position j and position k: the label list
\* matched and every delete of the cleanup succeeded.
QueryReturnedBetween(j, k) ==
  /\ calls[j].ok
  /\ response # <<>>
  /\ ParsedMatches(response[1], processed_images)
  /\ k - j - 1 = Len(processed_images)
  /\ \A i \in 1..Len(processed_images) :
       calls[j + i] =
         Call("delete", processed_images[i].genai_file_reference, TRUE)

CallOrder ==
  /\ Len(CallsOf("generate_content")) <= 1
  /\ Len(CallsOf("insert")) <= 1
  /\ \A k \in 1..Len(calls) :
       /\ calls[k].op = "generate_content" => AllImagesFetchedBefore(k)
       /\ calls[k].op = "insert" =>
            /\ k > 1
            /\ \E j \in 1..(k - 1) :
                 /\ calls[j].op = "generate_content"
                 /\ QueryReturnedBetween(j, k)
  /\ Stage = "PERSISTED" =>
       /\ calls # <<>>
       /\ calls[Len(calls)].op = "insert"
       /\ calls[Len(calls)].ok

\* C10: the stages are passed only in the order PENDING, IMAGES_FETCHED,
\* CLASSIFIED, PERSISTED (or left for FAILED): generate_content is issued
\* only after every image was fetched and uploaded, the insert only after
\* run_multimodal_query returned, and neither is repeated.
C10_StagesInOrder ==
  [][/\ Stage' # Stage => <<Stage, Stage'>> \in StageSteps
     /\ CallOrder']_vars

\* C10 witness: a product with two images or more reached PERSISTED.
C10_Witness ==
  /\ Stage = "PERSISTED"
  /\ Len(image_links) >= 2

LogsTagged(tag) == SelectSeq(logs, LAMBDA l : l.tag = tag)

\* What C11 says of every state of an invocation.
FailedState ==
  /\ Len(LogsTagged("[FAILED]")) = (IF raised # "none" THEN 1 ELSE 0)
  /\ Len(LogsTagged("[COMPLETED]")) <= 1
  /\ \A k \in 1..Len(logs) :
       logs[k].tag = "[FAILED]" =>
         /\ k = Len(logs)
         /\ logs[k].level = "error"
         /\ logs[k].product = ToJson(product)
  /\ raised # "none" =>
       /\ Stage = "FAILED"
       /\ LogsTagged("[COMPLETED]") = <<>>
  /\ (calls # <<>> /\ ~calls[Len(calls)].ok
        /\ calls[Len(calls)].op # "generate_content") => raised # "none"
  /\ (pc = "done" /\ \E k \in 1..Len(calls) : ~calls[k].ok) =>
       raised # "none"
  /\ (pc = "done" /\ pending # "none") => raised # "none"
  /\ LogsTagged("[COMPLETED]") # <<>> =>
       /\ raised = "none"
       /\ calls[Len(calls)] = Call("insert", Len(processed_images), TRUE)
       /\ errors = <<{}>>

\* C11: when a stage of process_product raises, exactly one [FAILED] record
\* carrying the product payload is logged as the exception is re-raised,
\* nothing runs after it (no call, no log record, no stage change) and no
\* [COMPLETED] record is ever logged; a [COMPLETED] record is logged only
\* after an insert that succeeded.
C11_FailedIsTerminalAndLogged ==
  [][/\ raised # "none" => UNCHANGED cvars
     /\ (raised = "none" /\ raised' # "none") =>
          /\ logs' = Append(logs, LogRecord("error", "[FAILED]", <<>>, <<>>))
          /\ Stage' = "FAILED"
     /\ FailedState']_vars

\* C11 witness: a product of two images whose label list did not match
\* ended in FAILED, the [ERROR] warning followed by the one [FAILED] record.
C11_Witness ==
  /\ raised = "GenerativeAIError"
  /\ LabelCountMismatch
  /\ Len(image_links) >= 2
  /\ Len(logs) = 2
  /\ logs[2].tag = "[FAILED]"
  /\ logs[2].product = ToJson(product)

\* C12: for a product whose image_link is None the images fetched are the
\* additional_image_links, in list order (all of them once the inference
\* call is issued), and no exception arises without a failed call or a bad
\* response; with one additional link there is one fetch, one inference call
\* with one file reference and one insert of one row.
C12_NullPrimaryFetchesAdditional ==
  product.image_link = None =>
    LET links == product.additional_image_links IN
    /\ pc # "start" => image_links = links
    /\ IsPrefix(Args(CallsOf("get")), links)
    /\ CallsOf("generate_content") # <<>> =>
         /\ Args(OkCallsOf("get")) = links
         /\ CallsOf("generate_content")[1].arg = Len(links)
    /\ raised # "none" => calls # <<>>
    /\ Len(links) = 1 =>
         /\ Len(CallsOf("get")) <= 1
         /\ Len(rows) <= 1
         /\ Stage = "PERSISTED" =>
              /\ CallsOf("get") = <<Call("get", links[1], TRUE)>>
              /\ CallsOf("generate_content") =
                   <<Call("generate_content", 1, TRUE)>>
              /\ CallsOf("insert") = <<Call("insert", 1, TRUE)>>
              /\ Len(rows) = 1
              /\ rows[1].image_link = links[1]

\* C12 witness: a product with a null primary and one additional link was
\* persisted.
C12_Witness ==
  /\ product.image_link = None
  /\ Len(product.additional_image_links) = 1
  /\ Stage = "PERSISTED"
  /\ Len(rows) = 1

\* The keys of a warehouse row: ProcessedImage's own fields, LabeledImage's
\* fields and the timestamp.
RowKeys ==
  {"image_link", "mime_type", "width", "height", "sha256_hash", "type",
   "timestamp"}

\* C13: no row handed to the insert holds the genai_file_reference key or a
\* nested labeled_image key: the keys of every row are the image's own
\* fields, the label's fields and timestamp.
C13_RowsOmitFileReference ==
  \A k \in 1..Len(rows) :
    /\ "genai_file_reference" \notin DOMAIN rows[k]
    /\ "labeled_image" \notin DOMAIN rows[k]
    /\ DOMAIN rows[k] = RowKeys

\* C13 witness: two rows were handed to the insert.
C13_Witness ==
  /\ CallsOf("insert") # <<>>
  /\ Len(rows) >= 2

\* C14: write_result_to_bigquery, called with n labeled images, makes one
\* insert call of n rows, row i built from image i, and all rows of the call
\* carry one and the same timestamp.
C14_OneInsertOfAllRows ==
  LET ins == CallsOf("insert") IN
  /\ Len(ins) <= 1
  /\ (pc = "done" /\ gemini_response # <<>>) => Len(ins) = 1
  /\ ins = <<>> => rows = <<>>
  /\ ins # <<>> =>
       /\ ins[1].arg = Len(processed_images)
       /\ Len(rows) = Len(processed_images)
       /\ \A i \in 1..Len(rows) :
            /\ rows[i].image_link = processed_images[i].image_link
            /\ rows[i].mime_type = processed_images[i].mime_type
            /\ rows[i].width = processed_images[i].width
            /\ rows[i].height = processed_images[i].height
            /\ rows[i].sha256_hash = processed_images[i].sha256_hash
            /\ rows[i].type = processed_images[i].labeled_image[1].type
            /\ rows[i].timestamp \in Clock
       /\ \A i, j \in 1..Len(rows) : rows[i].timestamp = rows[j].timestamp

\* C14 witness: an insert of the rows of two different images, labeled
\* differently.
C14_Witness ==
  /\ Len(CallsOf("insert")) = 1
  /\ Len(rows) >= 2
  /\ rows[1].image_link # rows[2].image_link
  /\ rows[1].type # rows[2].type

\* C15: write_result_to_bigquery raises BigQueryWriteError when the insert
\* call throws and when it returns a non-empty list of row errors; it
\* returns normally exactly when the call returned an empty list; the
\* insert is never attempted a second time.
C15_InsertFailureRaises ==
  LET ins == CallsOf("insert") IN
  /\ Len(ins) <= 1
  /\ ins = <<>> => errors = <<>>
  /\ ins # <<>> =>
       /\ pc = "done"
       /\ ~ins[1].ok => (errors = <<>> /\ raised = "BigQueryWriteError")
       /\ ins[1].ok => errors # <<>>
       /\ (ins[1].ok /\ errors[1] # {}) => raised = "BigQueryWriteError"
       /\ raised = "none" <=> (ins[1].ok /\ errors = <<{}>>)

\* C15 witness: the insert call returned normally, with an error for one of
\* two rows, and BigQueryWriteError was raised.
C15_Witness ==
  /\ CallsOf("insert") = <<Call("insert", 2, TRUE)>>
  /\ errors # <<>>
  /\ Cardinality(errors[1]) = 1
  /\ raised = "BigQueryWriteError"

\* The Error subclasses of classify_product_lib (lines 38-55) that its
\* operations raise.
ClassifierErrors == {"ImagePullError", "GenerativeAIError", "BigQueryWriteError"}

\* C21: whatever fails inside process_image, run_multimodal_query (its
\* cleanup included) or write_result_to_bigquery reaches process_product,
\* and through it the caller, as one of the module's own Error subclasses.
C21_EveryFailureIsWrapped ==
  raised \in {"none"} \cup ClassifierErrors

\* The inference call answered with a parsed label list as long as the
\* image list.
LabelCountMatches ==
  /\ response # <<>>
  /\ response[1].parsed # <<>>
  /\ Len(response[1].parsed[1]) = Len(processed_images)

\* C22: when generate_content answers with a parsed list as long as the
\* image list, image i's labeled_image is the i-th label of that list, for
\* every i, from the end of the try block on; and when run_multimodal_query
\* returns, it returns the raw text of that response.
C22_LabelsMatchedByPosition ==
  /\ LabelCountMatches =>
       \A i \in 1..Len(processed_images) :
         processed_images[i].labeled_image =
           <<[type |-> response[1].parsed[1][i]]>>
  /\ gemini_response # <<>> =>
       /\ LabelCountMatches
       /\ gemini_response = <<response[1].text>>

\* C22 witness: run_multimodal_query returned for two different images
\* that were given different labels.
C22_Witness ==
  /\ gemini_response # <<>>
  /\ Len(processed_images) >= 2
  /\ processed_images[1].image_link # processed_images[2].image_link
  /\ processed_images[1].labeled_image # processed_images[2].labeled_image

\* The inference step of run_multimodal_query failed: generate_content
\* threw, or its parsed list is None or of the wrong length.
InferenceFailed == QueryEntered /\ ~LabelCountMatches

\* What C23 says of every state of an invocation.
WarningState ==
  LET warnings == LogsTagged("[ERROR]") IN
  /\ Len(warnings) = (IF InferenceFailed THEN 1 ELSE 0)
  /\ InferenceFailed =>
       /\ logs[1] = warnings[1]
       /\ warnings[1].level = "warning"
       /\ warnings[1].gemini_text_prompt = <<TextPrompt(processed_images)>>
       /\ warnings[1].gemini_response =
            (IF response = <<>> THEN <<>> ELSE <<response[1].text>>)
       /\ pending = "GenerativeAIError"
  /\ (raised = "GenerativeAIError" /\ QueryEntered) =>
       /\ InferenceFailed
       /\ Len(logs) = 2
       /\ logs[2].tag = "[FAILED]"
       /\ Args(CallsOf("delete")) = Refs(processed_images)
       /\ \A k \in 1..Len(calls) :
            calls[k].op = "delete" =>
              /\ calls[k].ok
              /\ \E j \in 1..(k - 1) : calls[j].op = "generate_content"
  /\ (InferenceFailed /\ pc = "done"
        /\ \A k \in 1..Len(calls) : calls[k].op = "delete" => calls[k].ok) =>
       raised = "GenerativeAIError"

C24_ProcessImageErrors ==
  LET gets == CallsOf("get")
      ups == CallsOf("upload")
  IN
  /\ IsPrefix(Args(gets), image_links)
  /\ Len(ups) <= Len(OkCallsOf("get"))
  /\ Len(processed_images) <= Len(OkCallsOf("upload"))
  /\ \A k \in 1..Len(calls) :
       /\ (calls[k].op = "get" /\ ~calls[k].ok) =>
            /\ k = Len(calls)
            /\ raised = "ImagePullError"
            /\ Len(ups) = Len(gets) - 1
            /\ Len(processed_images) = Len(gets) - 1
       /\ calls[k].op = "upload" =>
            /\ k > 1
            /\ calls[k - 1].op = "get"
            /\ calls[k - 1].ok
       /\ (calls[k].op = "upload" /\ ~calls[k].ok) =>
            /\ k = Len(calls)
            /\ raised = "GenerativeAIError"
            /\ Len(processed_images) = Len(ups) - 1

\* C24 witness: the upload of a product's second image failed after its GET
\* had succeeded; the first image's ProcessedImage is the only one built.
C24_Witness ==
  /\ Len(calls) = 4
  /\ calls[3].op = "get"
  /\ calls[3].ok
  /\ calls[4].op = "upload"
  /\ ~calls[4].ok
  /\ raised = "GenerativeAIError"
  /\ Len(processed_images) = 1

\* C27: when files.delete raises for image i of the cleanup loop, no
\* delete is attempted for the images after i (nor any other call), and
\* that exception leaves run_multimodal_query in place of what was pending:
\* the response text is not returned, a pending GenerativeAIError is lost.
C27_FailedDeleteEndsCleanup ==
  \A k \in 1..Len(calls) :
    (calls[k].op = "delete" /\ ~calls[k].ok) =>
      LET i == Len(CallsOf("delete")) IN
      /\ k = Len(calls)
      /\ Args(CallsOf("delete")) = SubSeq(Refs(processed_images), 1, i)
      /\ pc = "done"
      /\ raised = "APIError"
      /\ gemini_response = <<>>
      /\ CallsOf("insert") = <<>>

\* C27 witness: the labels of two images had matched and the text was about
\* to be returned when the first files.delete raised; the second reference
\* was not deleted.
C27_Witness ==
  /\ Len(processed_images) = 2
  /\ LabelCountMatches
  /\ pending = "none"
  /\ CallsOf("delete") =
       <<Call("delete", processed_images[1].genai_file_reference, FALSE)>>
  /\ raised = "APIError"

\* C28: when the insert call is made (and already when
\* write_result_to_bigquery is entered) files.delete has been called, with
\* success, for every uploaded reference; no delete follows the insert, so
\* a run that ends in BigQueryWriteError has left no reference undeleted.
C28_CleanupPrecedesInsert ==
  /\ (pc = "insert" \/ CallsOf("insert") # <<>>) =>
       /\ Args(OkCallsOf("delete")) = UploadedRefs
       /\ Len(UploadedRefs) = Len(image_links)
  /\ \A k \in 1..Len(calls) :
       calls[k].op = "insert" =>
         /\ k = Len(calls)
         /\ \A i \in 1..Len(UploadedRefs) :
              \E j \in 1..(k - 1) :
                calls[j] = Call("delete", UploadedRefs[i], TRUE)
  /\ raised = "BigQueryWriteError" =>
       /\ CallsOf("insert") # <<>>
       /\ \A i \in 1..Len(UploadedRefs) : DeleteCount(UploadedRefs[i]) = 1

\* C28 witness: the insert call for a product of two images threw, after
\* both uploaded references had been deleted.
C28_Witness ==
  /\ Len(calls) = 8
  /\ calls[8] = Call("insert", 2, FALSE)
  /\ calls[6].op = "delete"
  /\ calls[7].op = "delete"
  /\ raised = "BigQueryWriteError"

\* C30: for a product without any image link process_product fetches
\* nothing, uploads nothing and deletes nothing; it still makes one
\* generate_content call, with zero file references; when that call returns
\* the empty label list it still makes one insert call, of zero rows, and
\* '[COMPLETED]' is logged only after that call succeeded.
C30_NoImageProductIsNotShortCircuited ==
  ImageLinks(product) = <<>> =>
    /\ \A k \in 1..Len(calls) :
         calls[k].op \in {"generate_content", "insert"} /\ calls[k].arg = 0
    /\ pc \notin {"get", "upload", "decode"}
    /\ pc \in {"cleanup", "insert", "done"} =>
         /\ calls # <<>>
         /\ calls[1].op = "generate_content"
         /\ Len(CallsOf("generate_content")) = 1
    /\ (pc = "done" /\ response # <<>> /\ response[1].parsed = <<<<>>>>) =>
         /\ Len(calls) = 2
         /\ calls[1] = Call("generate_content", 0, TRUE)
         /\ calls[2].op = "insert"
         /\ rows = <<>>
         /\ raised \in {"none", "BigQueryWriteError"}
    /\ LogsTagged("[COMPLETED]") # <<>> =>
         /\ calls = <<Call("generate_content", 0, TRUE),
                      Call("insert", 0, TRUE)>>
         /\ raised = "none"
    /\ (pc = "done" /\ raised = "none") => LogsTagged("[COMPLETED]") # <<>>

\* C30 witness: the product without image links was completed after one
\* inference call without file references and one insert of no rows.
C30_Witness ==
  /\ product = NoProduct
  /\ pc = "done"
  /\ raised = "none"
  /\ response # <<>>
  /\ response[1].parsed = <<<<>>>>
  /\ calls = <<Call("generate_content", 0, TRUE), Call("insert", 0, TRUE)>>
  /\ rows = <<>>
  /\ Len(LogsTagged("[COMPLETED]")) = 1

\* ===================================================================
\*                  PROPERTIES OF THE PROCESSING ENDPOINT
\* ===================================================================

\* The status C16 asks for: 0 for a request that is to be processed.
ExpectedRejection ==
  IF request.method # "POST" THEN 405
  ELSE IF request.content_type # "application/json" THEN 415
  ELSE IF request.json.kind # "product" THEN 400
  ELSE 0

\* process_product was called by the handler.
ProcessProductCalled == pc # "off"

\* C16: the handler answers 405 to a request that is not a POST, 415 to a
\* POST whose content type is not application/json, 400 to a POST of that
\* type whose JSON is missing, empty or not accepted by Product(**json), in
\* this order of precedence; process_product is not called for any of them,
\* and no other request is answered with one of these statuses.
C16_RejectsInOrder ==
  /\ ExpectedRejection # 0 =>
       /\ ~ProcessProductCalled
       /\ calls = <<>>
       /\ logs = <<>>
       /\ reply # <<>> =>
            /\ reply[1].status = ExpectedRejection
            /\ reply[1].exception = "none"
  /\ ExpectedRejection = 0 =>
       /\ ProcessProductCalled => product = request.json.fields
       /\ reply # <<>> =>
            /\ ProcessProductCalled
            /\ reply[1].status \notin {400, 405, 415}

\* C16 witness: a POST of application/json whose body lacks a field of
\* Product was answered 400.
C16_Witness ==
  /\ request.method = "POST"
  /\ request.content_type = "application/json"
  /\ request.json.kind = "missing_key"
  /\ reply # <<>>
  /\ reply[1].status = 400

\* C17: the handler returns 200 only after process_product returned without
\* raising; an exception of process_product is never answered with a status
\* but leaves the handler as that same exception.
C17_FailureIsNeverAcknowledged ==
  reply # <<>> =>
    /\ reply[1].status = 200 =>
         /\ pc = "done"
         /\ raised = "none"
         /\ reply[1].body = "OK"
         /\ LogsTagged("[COMPLETED]") # <<>>
    /\ ProcessProductCalled =>
         /\ pc = "done"
         /\ raised = "none" => reply[1] = Answer("OK", 200)
         /\ raised # "none" =>
              /\ reply[1].exception = raised
              /\ reply[1].status = 0
              /\ LogsTagged("[FAILED]") # <<>>

\* C17 witness: the insert failed and BigQueryWriteError left the handler.
C17_Witness ==
  /\ reply # <<>>
  /\ raised = "BigQueryWriteError"
  /\ reply[1].exception = "BigQueryWriteError"

\* ===================================================================
\*                 PROPERTIES OF THE START OF THE ENTRY POINTS
\* ===================================================================

\* C18: an entry point started with one of its required environment values
\* absent fails its module initialization and never handles a request: the
\* classifier for PROJECT_ID, DATASET_ID, TABLE_NAME and MODEL_NAME, the
\* distributor for PROJECT_ID, DATASET_ID, LOCATION, QUEUE_ID and
\* CLOUD_FUNCTION_URL.
C18_StartupFailsFast ==
  \A e \in Entries :
    (loaded[e] # "no" /\ ~(RequiredEnv(e) \subseteq env)) =>
      /\ loaded[e] # "ready"
      /\ ~served[e]

\* ===================================================================
\*             PROPERTIES OF generate_bigquery_schema_string
\* ===================================================================

\* C19: for every label class, generate_bigquery_schema_string either
\* raises TypeError or returns the 6 base columns followed by exactly one
\* column for every field of the class, named after it: no field is dropped
\* without an error.
C19_NoFieldSilentlyDropped ==
  schema_string # <<>> =>
    \/ schema_string[1].exception = "TypeError"
    \/ LET schema == schema_string[1].value.json IN
       /\ Len(schema) = Len(DefaultSchemaFields) + Len(labeled_image_class)
       /\ SubSeq(schema, 1, Len(DefaultSchemaFields)) = DefaultSchemaFields
       /\ \A k \in 1..Len(labeled_image_class) :
            schema[Len(DefaultSchemaFields) + k].name = FieldName(k)

\* ===================================================================
\*                      PROPERTIES OF ProductFilter
\* ===================================================================

\* No criterion is given: each of product_type, brands and offer_ids is
\* absent (None) or empty ('' or []).
NoCriterionGiven ==
  /\ filter_args.product_type \in {<<>>, <<"">>}
  /\ filter_args.brands \in {<<>>, <<<<>>>>}
  /\ filter_args.offer_ids \in {<<>>, <<<<>>>>}

\* C20: constructing a ProductFilter raises ProductFilterError exactly when
\* no criterion is given and yields the filter with the given fields
\* otherwise; a WHERE clause is built only from a constructed filter and
\* then holds a clause for each given criterion, at least one.
C20_EmptyFilterRaises ==
  /\ product_filter # <<>> =>
       /\ NoCriterionGiven <=>
            product_filter[1].exception = "ProductFilterError"
       /\ ~NoCriterionGiven <=>
            product_filter[1] = [exception |-> "none", fields |-> filter_args]
  /\ sql_filter # <<>> =>
       /\ product_filter # <<>>
       /\ product_filter[1].exception = "none"
       /\ ~NoCriterionGiven
       /\ sql_filter[1] # <<>>
       /\ {sql_filter[1][k].column : k \in 1..Len(sql_filter[1])} =
            {c \in {"product_type", "brand", "offer_id"} :
               \/ c = "product_type"
                    /\ filter_args.product_type \notin {<<>>, <<"">>}
               \/ c = "brand" /\ filter_args.brands \notin {<<>>, <<<<>>>>}
               \/ c = "offer_id"
                    /\ filter_args.offer_ids \notin {<<>>, <<<<>>>>}}

\* C20 witness: the construction of a filter whose criteria are all absent
\* or empty, not all of them None, raised ProductFilterError and no WHERE
\* clause was built.
C20_Witness ==
  /\ filter_args =
       [product_type |-> <<"">>, brands |-> <<<<>>>>, offer_ids |-> <<>>]
  /\ product_filter # <<>>
  /\ product_filter[1].exception = "ProductFilterError"
  /\ sql_filter = <<>>

\* ===================================================================
\*                      PROPERTIES OF THE DISTRIBUTOR
\* ===================================================================

\* The successful create_task calls made for product p, over all runs.
TasksCreatedFor(p) ==
  UNION {{<<r, k>> : k \in {i \in 1..Len(rcalls[r]) :
                              rcalls[r][i] = Call("create_task", p, TRUE)}} :
         r \in Runs}

\* C4: when two runs overlap, no product ends up with two tasks created
\* for it.
C4_NoDuplicateTasks ==
  overlapped => \A p \in ProductIds : Cardinality(TasksCreatedFor(p)) <= 1

\* Run r takes the step that decides line 54 and, with products, line 56.
GateStep(r) == dpc[r] = "gate" /\ dpc'[r] # "gate"

\* C5 as stated: a run that reaches its gate while the queue is non-empty
\* calls create_task zero times and ends by raising
\* CloudTasksQueueNotEmptyError.
C5_NonEmptyQueueAlwaysRaises ==
  [][\A r \in Runs :
       (GateStep(r) /\ queue # <<>>) =>
         /\ outcome'[r] = "CloudTasksQueueNotEmptyError"
         /\ (RCallsOf(r, "create_task"))' = <<>>]_vars

\* C5 amended: a run that found at least one product and whose probe
\* answered (is_queue_empty returned) ends by raising
\* CloudTasksQueueNotEmptyError exactly when the queue was non-empty at the
\* probe, and such a run never calls create_task; it enters push_products
\* only on an empty probe.  A run that found no product returns 'OK'
\* without probing, and a run whose probe raised ends in that error.
C5_RefusesWhenProbeFindsTasks ==
  [][\A r \in Runs :
       /\ GateStep(r) =>
            IF products[r] = <<>>
              THEN outcome'[r] = "OK" /\ rcalls'[r] = rcalls[r]
              ELSE IF probe'[r] = <<>>
                THEN outcome'[r] \in {"Exception", "CloudTasksPublishError"}
                ELSE /\ probe'[r] = <<queue = <<>>>>
                     /\ queue # <<>> =>
                          /\ dpc'[r] = "done"
                          /\ outcome'[r] = "CloudTasksQueueNotEmptyError"
                     /\ queue = <<>> =>
                          /\ dpc'[r] = "push"
                          /\ outcome'[r] = "none"
       /\ outcome'[r] = "CloudTasksQueueNotEmptyError" =>
            (RCallsOf(r, "create_task"))' = <<>>
       /\ outcome'[r] = "OK" =>
            \/ products'[r] = <<>>
            \/ probe'[r] = <<TRUE>>]_vars

\* C5 witness: a run with products ended in CloudTasksQueueNotEmptyError.
C5_Witness ==
  \E r \in Runs :
    /\ outcome[r] = "CloudTasksQueueNotEmptyError"
    /\ products[r] # <<>>
    /\ probe[r] = <<FALSE>>

FailedCreates(r) ==
  SelectSeq(rcalls[r], LAMBDA c : c.op = "create_task" /\ ~c.ok)

\* C6: push_products over N products with exactly one failing create_task
\* returns (N-1, 1), does not raise, and has called create_task for every
\* product, those after the failing one included.
C6_OneFailureIsCounted ==
  \A r \in Runs :
    (dpc[r] = "done" /\ Len(FailedCreates(r)) = 1) =>
      /\ push_error[r] = "none"
      /\ outcome[r] = "OK"
      /\ pushed[r] = <<Len(products[r]) - 1, 1>>
      /\ Args(RCallsOf(r, "create_task")) = products[r]

\* C6 witness: the first of several products failed and the call returned.
C6_Witness ==
  \E r \in Runs :
    /\ dpc[r] = "done"
    /\ Len(products[r]) >= 2
    /\ Len(FailedCreates(r)) = 1
    /\ FailedCreates(r)[1].arg = products[r][1]
    /\ pushed[r] = <<Len(products[r]) - 1, 1>>

\* Within main.run the first queue_path call of a run is is_queue_empty's
\* and the second is push_products'.
PushEntered(r) == Len(RCallsOf(r, "queue_path")) >= 2

PushPathFailed(r) ==
  PushEntered(r) /\ ~RCallsOf(r, "queue_path")[2].ok

\* C7: push_products raises (CloudTasksPublishError) if and only if
\* resolving the queue path fails, and then create_task was never called; a
\* failing create_task never makes it raise.
C7_RaisesOnlyOnQueuePath ==
  \A r \in Runs :
    /\ push_error[r] # "none" <=> PushPathFailed(r)
    /\ PushPathFailed(r) =>
         /\ push_error[r] = "CloudTasksPublishError"
         /\ outcome[r] = "CloudTasksPublishError"
         /\ RCallsOf(r, "create_task") = <<>>
         /\ pushed[r] = <<>>
    /\ (dpc[r] = "done" /\ PushEntered(r) /\ ~PushPathFailed(r)) =>
         /\ pushed[r] # <<>>
         /\ outcome[r] = "OK"

\* C7 witness: push_products raised on the queue path.
C7_Witness ==
  \E r \in Runs :
    /\ push_error[r] = "CloudTasksPublishError"
    /\ PushPathFailed(r)
    /\ Len(products[r]) >= 2

\* is_queue_empty was called by run r and has returned or raised.
ProbeCalled(r) == products[r] # <<>> /\ dpc[r] \in {"push", "create", "done"}

ListTasksCalls(r) == RCallsOf(r, "list_tasks")

\* The probe's list_tasks call answered with a response.
ProbeAnswered(r) == ListTasksCalls(r) # <<>> /\ ListTasksCalls(r)[1].ok

\* C8 as stated: is_queue_empty returns True if and only if the response
\* enumerates zero tasks, and every call of it issues exactly one
\* list_tasks request, with page_size=1.
C8_ExactlyOneListTasksPerCall ==
  \A r \in Runs :
    ProbeCalled(r) =>
      /\ Len(ListTasksCalls(r)) = 1
      /\ \A k \in 1..Len(ListTasksCalls(r)) : ListTasksCalls(r)[k].arg = 1
      /\ probe[r] = <<TRUE>> <=> (ProbeAnswered(r) /\ probed[r] = <<>>)

\* C8 amended: is_queue_empty returns True if and only if the response
\* enumerates zero tasks (False if and only if it enumerates some), and
\* every call of it issues at most one list_tasks request, with
\* page_size=1: exactly one when the queue path resolved, none when
\* queue_path raised.
C8_AtMostOneListTasksPerCall ==
  \A r \in Runs :
    /\ Len(ListTasksCalls(r)) <= 1
    /\ \A k \in 1..Len(ListTasksCalls(r)) : ListTasksCalls(r)[k].arg = 1
    /\ ProbeCalled(r) =>
         (Len(ListTasksCalls(r)) = 1 <=> RCallsOf(r, "queue_path")[1].ok)
    /\ probe[r] = <<TRUE>> <=> (ProbeAnswered(r) /\ probed[r] = <<>>)
    /\ probe[r] = <<FALSE>> <=> (ProbeAnswered(r) /\ probed[r] # <<>>)

\* C8 witness: one probe answered True and another answered False.
C8_Witness ==
  \E r, o \in Runs :
    /\ probe[r] = <<TRUE>>
    /\ probe[o] = <<FALSE>>
    /\ Len(probed[o]) = 1

\* C25: when the list_tasks call of is_queue_empty errors, is_queue_empty
\* raises CloudTasksPublishError and returns neither True nor False: the
\* run ends in that error without entering push_products.
C25_FailedProbeRaises ==
  \A r \in Runs :
    (ListTasksCalls(r) # <<>> /\ ~ListTasksCalls(r)[1].ok) =>
      /\ probe[r] = <<>>
      /\ dpc[r] = "done"
      /\ outcome[r] = "CloudTasksPublishError"
      /\ push_error[r] = "none"
      /\ pushed[r] = <<>>
      /\ Len(RCallsOf(r, "queue_path")) = 1
      /\ RCallsOf(r, "create_task") = <<>>

\* C25 witness: the probe of a run with products errored while tasks of the
\* other run were pending in the queue.
C25_Witness ==
  \E r \in Runs :
    /\ products[r] # <<>>
    /\ ListTasksCalls(r) = <<Call("list_tasks", PAGE_SIZE, FALSE)>>
    /\ outcome[r] = "CloudTasksPublishError"
    /\ queue # <<>>

OkCreates(r) ==
  SelectSeq(rcalls[r], LAMBDA c : c.op = "create_task" /\ c.ok)

\* The queue path of push_products resolved: its loop is entered.
PushPathResolved(r) == PushEntered(r) /\ RCallsOf(r, "queue_path")[2].ok

\* C26: once its queue path resolved, push_products attempts create_task
\* once per product in list order, whatever succeeds or fails, and returns
\* (s, f) with s the number of tasks created, f the number of failed
\* attempts and s + f the number of products.
C26_CountsEveryProduct ==
  \A r \in Runs :
    PushPathResolved(r) =>
      LET creates == RCallsOf(r, "create_task") IN
      /\ IsPrefix(Args(creates), products[r])
      /\ success_count[r] = Len(OkCreates(r))
      /\ failure_count[r] = Len(FailedCreates(r))
      /\ failed_products[r] = Args(FailedCreates(r))
      /\ dpc[r] = "done" =>
           /\ Args(creates) = products[r]
           /\ pushed[r] = <<Len(OkCreates(r)), Len(FailedCreates(r))>>
           /\ pushed[r][1] + pushed[r][2] = Len(products[r])

\* C26 witness: of three products the first task was created and the two
\* others failed; (1, 2) was returned.
C26_Witness ==
  \E r \in Runs :
    /\ Len(products[r]) = 3
    /\ pushed[r] = <<1, 2>>
    /\ RCallsOf(r, "create_task")[1].ok

\* C29: a run that found at least one product, probed the queue as empty
\* and got a return value from push_products answers 'OK', whatever the
\* failure count is, including when create_task failed for every product.
C29_ReturnedPushAnswersOk ==
  \A r \in Runs :
    pushed[r] # <<>> =>
      /\ products[r] # <<>>
      /\ probe[r] = <<TRUE>>
      /\ push_error[r] = "none"
      /\ dpc[r] = "done"
      /\ outcome[r] = "OK"

\* C29 witness: create_task failed for each of two products and the run
\* answered 'OK'.
C29_Witness ==
  \E r \in Runs :
    /\ Len(products[r]) = 2
    /\ pushed[r] = <<0, 2>>
    /\ Len(OkCreates(r)) = 0
    /\ outcome[r] = "OK"

====
